---- MODULE Spec2Model ----
(***************************************************************************)
(* Model of OptimizedGrainVoiceManager                                     *)
(* (src/js/audio/OptimizedGrainVoiceManager.js): the node pool, the set of *)
(* active voices, the cleanup queue and the grain lifecycle.               *)
(*                                                                         *)
(* Time is counted in units of 0.1 s of the audio clock, so that           *)
(* CLEANUP_DELAY (0.1 s) is one unit.  Grains and node triples are named   *)
(* by the order in which they were created.  A JavaScript Set iterates in  *)
(* insertion order, so activeVoices is a duplicate-free sequence.          *)
(*                                                                         *)
(* The three arrays of nodePool are pushed and popped in lockstep          *)
(* (getPooledNodes pops one of each, returnNodesToPool pushes one of each  *)
(* after the last statement that can throw), so the pool is one sequence   *)
(* of triples.                                                             *)
(***************************************************************************)
EXTENDS Integers, Sequences, FiniteSets, TLC

\* ---------------------------------------------------------------- constants
CLEANUP_INTERVAL == 60
CLEANUP_DELAY == 1
DEFAULT_FILTER_FREQUENCY == 350

\* ------------------------------------------------------------------- bounds
MaxVoicesBound == 2    \* maxVoices is drawn from 1..MaxVoicesBound
MaxCalls == 3          \* createGrain calls per behaviour
MaxClockSteps == 1     \* advances of the audio clock per behaviour
MaxEvictCalls == 4     \* createGrain calls per behaviour of SpecEvict

\* Inputs of createGrain.
Durations == {5, 10}
CutoffFreqs == {1000}
PanValues == {1}
ClockSteps == {6}
\* lastCleanup after construction is 0.  k createGrain calls that fail
\* before a node triple is taken (fault "source") on an idle manager change
\* nothing but lastCleanup, so the manager also starts from k = 58 to bring
\* the 60th call within MaxCalls.
StartCounts == {0, 58}

\* The step of createOptimizedGrain at which the platform throws.
\*   source        : createBufferSource / source.buffer / playbackRate (246-248)
\*   filter        : filterNode.frequency.value = params.cutoffFreq     (255)
\*   panner        : pannerNode.pan.value = panValue                    (261)
\*   envelopeFirst : gain.setValueAtTime(0, startTime) throws           (311)
\*   envelopeRamp  : a later scheduling call of the envelope throws     (315-363)
\*   connect       : source.connect(...)...connect(masterGain)          (267-271)
\*   start         : source.start(startTime, position, duration)        (274)
Faults == {"none", "source", "filter", "panner", "envelopeFirst",
           "envelopeRamp", "connect", "start"}
EnvelopeFaults == {"envelopeFirst", "envelopeRamp"}
\* One fault of each outcome: success, a failure after the triple was taken
\* (createGrain returns null), a swallowed envelope failure.
OutcomeFaults == {"none", "start", "envelopeRamp"}

VARIABLES
  maxVoices,      \* this.maxVoices
  activeVoices,   \* this.activeVoices, in insertion order
  cleanupQueue,   \* this.cleanupQueue: sequence of [grain, time]
  lastCleanup,    \* this.lastCleanup
  nodePool,       \* this.nodePool: sequence of triples
  nodes,          \* state of every node triple
  allocated,      \* number of node triples created so far
  grains,         \* every grain object created so far
  teardowns,      \* per grain: how often the body of cleanupGrain ran
  now,            \* audioContext.currentTime
  calls,          \* createGrain calls made in this behaviour
  clockSteps,     \* clock advances made in this behaviour
  lastOp,         \* the last operation and what it observed
  evictLog,       \* the forced evictions so far, oldest first
  destroyed,      \* destroy() has run
  envIn,          \* arguments of the last applyOptimizedEnvelope
  envPoints,      \* the automation calls it made on gainNode.gain
  trigIn,         \* inputs of the last sequencer tick
  trigOut,        \* the createGrain requests that tick submitted
  app,            \* the application state the sequencer tick reads
  validation,     \* the last validateAudioFile call: its file and result
  stateManager,   \* the StateManager: maxHistoryStates, history, historyIndex
  playback        \* isPlaying, sequencerIntervalId, tempoBpm and the timers

\* State outside the voice manager's own operations.
utilVars == <<validation, stateManager, playback>>
auxVars == <<evictLog, destroyed, envIn, envPoints, trigIn, trigOut, app,
             utilVars>>
sideVars == <<destroyed, envIn, envPoints, trigIn, trigOut, app, utilVars>>

vars == <<maxVoices, activeVoices, cleanupQueue, lastCleanup, nodePool, nodes,
          allocated, grains, teardowns, now, calls, clockSteps, lastOp,
          evictLog, destroyed, envIn, envPoints, trigIn, trigOut, app,
          validation, stateManager, playback>>

\* ------------------------------------------------------------------ helpers
Range(s) == {s[i] : i \in 1..Len(s)}
Remove(s, x) == SelectSeq(s, LAMBDA y : y # x)
Occurrences(s, x) == Cardinality({i \in 1..Len(s) : s[i] = x})
MaxTriples ==
  MaxVoicesBound + (IF MaxCalls > MaxEvictCalls THEN MaxCalls ELSE MaxEvictCalls)

\* A freshly created gain / biquad filter / stereo panner.
NeutralNode == [gain |-> 1, frequency |-> DEFAULT_FILTER_FREQUENCY, pan |-> 0,
                scheduled |-> FALSE]

\* The manager's mutable state as one value, threaded through the methods.
Mgr == [activeVoices |-> activeVoices, cleanupQueue |-> cleanupQueue,
        nodePool |-> nodePool, nodes |-> nodes, allocated |-> allocated,
        grains |-> grains, teardowns |-> teardowns]

\* --------------------------------------------------------------- node pool
PreAllocateNodes(mv) == [i \in 1..mv |-> i]

\* pop() of each array, or a freshly created node when the pool is empty.
GetPooledNodesKeep(S) ==
  IF Len(S.nodePool) > 0
    THEN [S |-> S, triple |-> S.nodePool[Len(S.nodePool)]]
    ELSE [S |-> [S EXCEPT !.allocated = @ + 1], triple |-> S.allocated + 1]

GetPooledNodesFresh(S) ==
  [S |-> [S EXCEPT !.allocated = @ + 1], triple |-> S.allocated + 1]

GetPooledNodes(S) ==
  IF Len(S.nodePool) > 0
    THEN [S |-> [S EXCEPT !.nodePool = SubSeq(@, 1, Len(@) - 1)],
          triple |-> S.nodePool[Len(S.nodePool)]]
    ELSE [S |-> [S EXCEPT !.allocated = @ + 1], triple |-> S.allocated + 1]

\* cancelScheduledValues(0) and value reset of the three nodes, then the
\* three pushes.  Connections carry no state that a later step reads, so
\* connect() and disconnect() are not recorded.  None of the reset calls
\* throws on a node of this pool, so the pushes are always reached.
ReturnNodesToPoolNoFilterReset(S, t) ==
  [S EXCEPT !.nodes[t] = [@ EXCEPT !.gain = 1, !.pan = 0,
                                   !.scheduled = FALSE],
            !.nodePool = Append(@, t)]

ReturnNodesToPool(S, t) ==
  [S EXCEPT !.nodes[t] = [gain |-> 1, frequency |-> DEFAULT_FILTER_FREQUENCY,
                          pan |-> 0, scheduled |-> FALSE],
            !.nodePool = Append(@, t)]

\* ---------------------------------------------------------------- teardown
CleanupGrainNoGuard(S, g) ==
  ReturnNodesToPool(
    [S EXCEPT !.grains[g].isActive = FALSE,
              !.grains[g].source = "stopped",
              !.activeVoices = Remove(@, g),
              !.teardowns[g] = @ + 1],
    S.grains[g].nodes)

CleanupGrain(S, g) ==
  IF ~S.grains[g].isActive
    THEN S
    ELSE ReturnNodesToPool(
           [S EXCEPT !.grains[g].isActive = FALSE,
                     !.grains[g].source = "stopped",
                     !.activeVoices = Remove(@, g),
                     !.teardowns[g] = @ + 1],
           S.grains[g].nodes)

\* cleanupGrain on every grain of gs, in order.
RECURSIVE CleanupEach(_, _)
CleanupEach(S, gs) ==
  IF gs = <<>> THEN S
  ELSE CleanupEach(CleanupGrain(S, Head(gs)), Tail(gs))

\* The grains of the due entries, in the order performCleanup collects them
\* (the queue is walked from its last entry to its first).
RECURSIVE DueGrains(_, _, _)
DueGrains(q, i, t) ==
  IF i = 0 THEN <<>>
  ELSE IF q[i].time <= t
         THEN <<q[i].grain>> \o DueGrains(q, i - 1, t)
         ELSE DueGrains(q, i - 1, t)

PerformCleanupStrict(S, t) ==
  CleanupEach(
    [S EXCEPT !.cleanupQueue = SelectSeq(@, LAMBDA e : e.time >= t)],
    DueGrains(S.cleanupQueue, Len(S.cleanupQueue), t + 1))

PerformCleanup(S, t) ==
  CleanupEach(
    [S EXCEPT !.cleanupQueue = SelectSeq(@, LAMBDA e : e.time > t)],
    DueGrains(S.cleanupQueue, Len(S.cleanupQueue), t))

\* The scan of forceCleanupOldest: oldest = 0 stands for oldestGrain = null
\* with oldestTime = Infinity, below which every end time lies.
RECURSIVE ScanLatest(_, _, _, _)
ScanLatest(S, i, oldest, oldestTime) ==
  IF i > Len(S.activeVoices) THEN oldest
  ELSE LET g == S.activeVoices[i] IN
       IF oldest = 0 \/ S.grains[g].endTime > oldestTime
         THEN ScanLatest(S, i + 1, g, S.grains[g].endTime)
         ELSE ScanLatest(S, i + 1, oldest, oldestTime)

RECURSIVE ScanOldest(_, _, _, _)
ScanOldest(S, i, oldest, oldestTime) ==
  IF i > Len(S.activeVoices) THEN oldest
  ELSE LET g == S.activeVoices[i] IN
       IF oldest = 0 \/ S.grains[g].endTime < oldestTime
         THEN ScanOldest(S, i + 1, g, S.grains[g].endTime)
         ELSE ScanOldest(S, i + 1, oldest, oldestTime)

OldestGrain(S) == ScanOldest(S, 1, 0, 0)

ForceCleanupFirst(S) ==
  IF Len(S.activeVoices) > 0 THEN CleanupGrain(S, S.activeVoices[1]) ELSE S

ForceCleanupOldest(S) ==
  IF OldestGrain(S) # 0 THEN CleanupGrain(S, OldestGrain(S)) ELSE S

StopAllKeepQueue(S) == CleanupEach(S, S.activeVoices)

StopAll(S) ==
  [CleanupEach(S, S.activeVoices) EXCEPT !.cleanupQueue = <<>>]

\* destroy(): stopAll(), then the pools and the collections are emptied.
DestroyKeepPool(S) ==
  [StopAll(S) EXCEPT !.activeVoices = <<>>, !.cleanupQueue = <<>>]

Destroy(S) ==
  [StopAll(S) EXCEPT !.nodePool = <<>>, !.activeVoices = <<>>,
                     !.cleanupQueue = <<>>]

\* ---------------------------------------------------------- grain creation
ScheduleCleanup(S, g, cleanupTime) ==
  [S EXCEPT !.cleanupQueue = Append(@, [grain |-> g, time |-> cleanupTime])]

\* Result: the new state and the grain (0 for null).
CreateOptimizedGrain(S, startTime, duration, cutoff, pan, fault) ==
  IF fault = "source" THEN [S |-> S, grain |-> 0]
  ELSE
    LET P  == GetPooledNodes(S)
        t  == P.triple
        S1 == P.S
        S2 == [S1 EXCEPT !.nodes[t].frequency = cutoff]
        S3 == [S2 EXCEPT !.nodes[t].pan = pan]
        \* applyOptimizedEnvelope catches whatever it throws
        S4 == IF fault = "envelopeFirst" THEN S3
              ELSE [S3 EXCEPT !.nodes[t].scheduled = TRUE]
        g  == Len(S.grains) + 1
    IN
    CASE fault = "filter"  -> [S |-> S1, grain |-> 0]
      [] fault = "panner"  -> [S |-> S2, grain |-> 0]
      [] fault = "connect" -> [S |-> S4, grain |-> 0]
      [] fault = "start"   -> [S |-> S4, grain |-> 0]
      [] OTHER ->
           [S |-> [S4 EXCEPT
                     !.grains = Append(@, [source |-> "playing", nodes |-> t,
                                           endTime |-> startTime + duration,
                                           isActive |-> TRUE]),
                     !.teardowns = Append(@, 0)],
            grain |-> g]

PeriodicDueAlways(n) == TRUE

PeriodicDue(n) == n % CLEANUP_INTERVAL = 0

AtCapacityOffByOne(S) == Len(S.activeVoices) > maxVoices

AtCapacity(S) == Len(S.activeVoices) >= maxVoices

GetActiveVoiceCount == Len(activeVoices)

Install(S) ==
  /\ activeVoices' = S.activeVoices
  /\ cleanupQueue' = S.cleanupQueue
  /\ nodePool' = S.nodePool
  /\ nodes' = S.nodes
  /\ allocated' = S.allocated
  /\ grains' = S.grains
  /\ teardowns' = S.teardowns

NoOp == [op |-> "init", grain |-> 0, fault |-> "none", before |-> <<>>,
         atCheck |-> <<>>, due |-> {}, queueLen |-> 0, result |-> 0]

\* ------------------------------------------------------------------ actions
\* The state after construction of the voice manager.
MgrInit ==
  /\ maxVoices \in 1..MaxVoicesBound
  /\ activeVoices = <<>>
  /\ cleanupQueue = <<>>
  /\ lastCleanup \in StartCounts
  /\ nodePool = PreAllocateNodes(maxVoices)
  /\ nodes = [t \in 1..MaxTriples |-> NeutralNode]
  /\ allocated = maxVoices
  /\ grains = <<>>
  /\ teardowns = <<>>
  /\ now = 0
  /\ calls = 0
  /\ clockSteps = 0
  /\ lastOp = NoOp
  /\ evictLog = <<>>
  /\ destroyed = FALSE

\* Nothing has been enveloped or triggered yet.
NoEnvelope == [shape |-> -1, startTime |-> 0, duration |-> 0, attackTime |-> 0,
               decayTime |-> 0, volume |-> 0]
NoTick == [slotMode |-> -1, random |-> <<0>>, lfoPhase |-> 0, step |-> 0,
           targetSlots |-> <<>>, now |-> 0]

\* validateAudioFile has not been called, no StateManager is constructed.
\* A state handed to saveState is told apart by the number of the save; its
\* kind says how it clones.  NullState stands for null.
NoValidation == [called |-> FALSE]
NullState == [id |-> 0, kind |-> "plain"]
NoStateManager == [op |-> "none"]

\* this.state of the player after construction: not playing, no interval
\* id (0 stands for null), 120 bpm; the ResourceManager tracks no timer and
\* the platform has issued no timer id.
DEFAULT_BPM == 120
PlaybackInit ==
  [isPlaying |-> FALSE, sequencerIntervalId |-> 0, tempoBpm |-> DEFAULT_BPM,
   timers |-> {}, issued |-> 0, op |-> "none"]

\* this.config
SLOTS == 4
SEQUENCER_STEPS == 16
Slots == 0..(SLOTS - 1)

\* The knobs of one slot that _triggerGrainForSlot computes with, at their
\* configured values: startOffset in percent, playbackRate and panControl in
\* hundredths, grainSize in ms, spread 0..100.
DefaultKnobs ==
  [startOffset |-> 0, playbackRate |-> 100, grainSize |-> 350,
   grainsPerStep |-> 10, lfoWaveform |-> 0, spread |-> 0, panControl |-> 0]

\* A slot's row of the step pattern as a bit mask: step t is on when bit t
\* is set.
AllSteps == 2^SEQUENCER_STEPS - 1
StepMask(steps) ==
  LET RECURSIVE Sum(_)
      Sum(S) == IF S = {} THEN 0
                ELSE LET t == CHOOSE x \in S : TRUE IN 2^t + Sum(S \ {t})
  IN Sum(steps)

\* this.state and the sequencer patterns after construction: no buffer
\* loaded (0 stands for null, a loaded buffer is its duration in
\* microseconds), nothing soloed or muted, every step on.  The knobs of the
\* four slots are set alike except grainsPerStep, so one record holds the
\* shared positions and grainsPerStep is kept per slot.
AppInit ==
  [audioBuffers |-> [s \in Slots |-> 0],
   slotSoloStatus |-> [s \in Slots |-> FALSE],
   slotMuteStatus |-> [s \in Slots |-> FALSE],
   patterns |-> [s \in Slots |-> AllSteps],
   knobs |-> DefaultKnobs,
   grainsPerStep |-> [s \in Slots |-> DefaultKnobs.grainsPerStep],
   currentSequencerStep |-> 0,
   configured |-> FALSE]

SideInit ==
  /\ envIn = NoEnvelope
  /\ envPoints = <<>>
  /\ trigIn = NoTick
  /\ trigOut = <<>>
  /\ app = AppInit
  /\ validation = NoValidation
  /\ stateManager = NoStateManager
  /\ playback = PlaybackInit

Init == MgrInit /\ SideInit

\* One createGrain call, as the voice manager sees it.
CreateGrainBody(duration, cutoff, pan, fault) ==
    LET startTime == now
        n  == lastCleanup + 1
        S1 == IF PeriodicDue(n) THEN PerformCleanup(Mgr, now) ELSE Mgr
        S2 == IF AtCapacity(S1) THEN ForceCleanupOldest(S1) ELSE S1
        R  == CreateOptimizedGrain(S2, startTime, duration, cutoff, pan, fault)
        S3 == IF R.grain # 0
                THEN ScheduleCleanup(
                       [R.S EXCEPT !.activeVoices = Append(@, R.grain)],
                       R.grain, startTime + duration + CLEANUP_DELAY)
                ELSE R.S
    IN
    /\ lastCleanup' = n
    /\ Install(S3)
    /\ calls' = calls + 1
    /\ lastOp' = [op |-> "createGrain", grain |-> 0, fault |-> fault,
                  before |-> activeVoices,
                  queueLen |-> Len(cleanupQueue),
                  atCheck |-> S1.activeVoices,
                  due |-> IF PeriodicDue(n)
                            THEN {e.grain : e \in
                                    {x \in Range(cleanupQueue) : x.time <= now}}
                            ELSE {},
                  result |-> R.grain]
    /\ UNCHANGED <<maxVoices, now, clockSteps>>

\* One createGrain call.
CreateGrainCall(duration, cutoff, pan, fault) ==
    /\ CreateGrainBody(duration, cutoff, pan, fault)
    /\ UNCHANGED sideVars

\* One createGrain call; the voices it force-evicts are appended to evictLog
\* with the voices that stay.
CreateGrainStep(duration, cutoff, pan, fault) ==
    /\ CreateGrainCall(duration, cutoff, pan, fault)
    /\ evictLog' =
         LET atCheck == Range(lastOp'.atCheck)
             gone    == {g \in atCheck : ~grains'[g].isActive}
         IN IF gone = {} THEN evictLog
            ELSE Append(evictLog, [evicted |-> gone, kept |-> atCheck \ gone])

CreateGrain ==
  \E duration \in Durations, cutoff \in CutoffFreqs, pan \in PanValues,
     fault \in Faults :
    /\ calls < MaxCalls
    /\ CreateGrainCall(duration, cutoff, pan, fault)
    /\ UNCHANGED evictLog

\* source.onended: the source has played to its end or has been stopped.
OnEnded(g) ==
  /\ g \in 1..Len(grains)
  /\ grains[g].source = "stopped" \/ grains[g].endTime <= now
  /\ Install(CleanupGrain(Mgr, g))
  /\ lastOp' = [NoOp EXCEPT !.op = "onended", !.grain = g,
                            !.before = activeVoices]
  /\ UNCHANGED <<maxVoices, lastCleanup, now, calls, clockSteps>>
  /\ UNCHANGED auxVars

StopAllGrains ==
  /\ Install(StopAll(Mgr))
  /\ lastOp' = [NoOp EXCEPT !.op = "stopAll", !.before = activeVoices,
                            !.queueLen = Len(cleanupQueue)]
  /\ UNCHANGED <<maxVoices, lastCleanup, now, calls, clockSteps>>
  /\ UNCHANGED auxVars

AdvanceClock ==
  /\ clockSteps < MaxClockSteps
  /\ \E d \in ClockSteps : now' = now + d
  /\ clockSteps' = clockSteps + 1
  /\ UNCHANGED <<maxVoices, activeVoices, cleanupQueue, lastCleanup, nodePool,
                 nodes, allocated, grains, teardowns, calls, lastOp>>
  /\ UNCHANGED auxVars

Next ==
  \/ CreateGrain
  \/ \E g \in 1..MaxCalls : OnEnded(g)
  \/ StopAllGrains
  \/ AdvanceClock

Spec == Init /\ [][Next]_vars

\* Sequences of createGrain calls alone, as the scheduler issues them while
\* the clock runs: no callback and no stopAll in between.
CreateGrainOnly ==
  \E duration \in Durations, cutoff \in CutoffFreqs, pan \in PanValues,
     fault \in OutcomeFaults :
    calls < MaxEvictCalls /\ CreateGrainStep(duration, cutoff, pan, fault)

NextEvict == CreateGrainOnly \/ AdvanceClock

SpecEvict == Init /\ [][NextEvict]_vars

\* The manager on a platform none of whose steps fails.
CreateGrainNoFault ==
  \E duration \in Durations, cutoff \in CutoffFreqs, pan \in PanValues :
    /\ calls < MaxCalls
    /\ CreateGrainCall(duration, cutoff, pan, "none")
    /\ UNCHANGED evictLog

NextNoFault ==
  \/ CreateGrainNoFault
  \/ \E g \in 1..MaxCalls : OnEnded(g)
  \/ StopAllGrains
  \/ AdvanceClock

SpecNoFault == Init /\ [][NextNoFault]_vars

\* The manager's whole life: destroy() ends it, after which only callbacks
\* of the platform still arrive.
DestroyManager ==
  /\ ~destroyed
  /\ Install(Destroy(Mgr))
  /\ destroyed' = TRUE
  /\ lastOp' = [NoOp EXCEPT !.op = "destroy", !.before = activeVoices,
                            !.queueLen = Len(cleanupQueue)]
  /\ UNCHANGED <<maxVoices, lastCleanup, now, calls, clockSteps, evictLog,
                 envIn, envPoints, trigIn, trigOut, app, utilVars>>

CreateGrainLive ==
  /\ ~destroyed
  /\ \E duration \in Durations, cutoff \in CutoffFreqs, pan \in PanValues,
        fault \in OutcomeFaults :
       /\ calls < MaxCalls
       /\ CreateGrainCall(duration, cutoff, pan, fault)
       /\ UNCHANGED evictLog

StopAllLive == ~destroyed /\ StopAllGrains

NextDestroy ==
  \/ CreateGrainLive
  \/ StopAllLive
  \/ \E g \in 1..MaxCalls : OnEnded(g)
  \/ AdvanceClock
  \/ DestroyManager

SpecDestroy == Init /\ [][NextDestroy]_vars

\* performCleanup called on its own, between createGrain calls, callbacks
\* and clock advances.
PerformCleanupStep ==
  /\ Install(PerformCleanup(Mgr, now))
  /\ lastOp' = [NoOp EXCEPT !.op = "performCleanup",
                            !.before = activeVoices,
                            !.queueLen = Len(cleanupQueue),
                            !.due = {e.grain : e \in
                                      {x \in Range(cleanupQueue) :
                                         x.time <= now}}]
  /\ UNCHANGED <<maxVoices, lastCleanup, now, calls, clockSteps>>
  /\ UNCHANGED auxVars

NextDrain ==
  \/ CreateGrainLive
  \/ \E g \in 1..MaxCalls : OnEnded(g)
  \/ AdvanceClock
  \/ PerformCleanupStep

SpecDrain == Init /\ [][NextDrain]_vars

\* ---------------------------------------------------------------- envelope
\* applyOptimizedEnvelope.  Envelope times are in ticks of 1/240 ms, which
\* makes every i / steps fraction of an attack, release or duration exact for
\* durations that are multiples of 10 ms (the grainSize knob's step).  Gains
\* are in millionths; the curve tables hold the factor of peakGain at each
\* sample i / steps, rounded to a millionth.
TicksPerMs == 240
BASE_GAIN == 200000
LOGARITHMIC_STEPS == 10
SIGMOID_STEPS == 15
COSINE_STEPS == 12
GAUSSIAN_STEPS == 20
HANNING_STEPS == 16
ExpFloor == 1000

\* log(1 + t (e - 1)) / log(e)
LogRise ==
  <<0, 158565, 295395, 415735, 523137, 620115, 708513, 789728, 864840,
    934702, 1000000>>
LogFallRising ==
  <<0, 158565, 295395, 415735, 523137, 620115, 708513, 789728, 864840,
    934702, 1000000>>

\* 1 - log(1 + t (e - 1)) / log(e)
LogFall ==
  <<1000000, 841435, 704605, 584265, 476863, 379885, 291487, 210272,
    135160, 65298, 0>>
\* 1 / (1 + exp(-12 (t - 0.5)))
SigmoidRise ==
  <<2473, 5486, 12128, 26597, 57324, 119203, 231475, 401312, 598688,
    768525, 880797, 942676, 973403, 987872, 994514, 997527>>
\* 1 / (1 + exp(-12 (0.5 - t)))
SigmoidFall ==
  <<997527, 994514, 987872, 973403, 942676, 880797, 768525, 598688,
    401312, 231475, 119203, 57324, 26597, 12128, 5486, 2473>>
\* sin(t pi / 2)
CosineRise ==
  <<0, 130526, 258819, 382683, 500000, 608761, 707107, 793353, 866025,
    923880, 965926, 991445, 1000000>>
\* |sin(pi / 2 + t pi / 2)|
CosineFall ==
  <<1000000, 991445, 965926, 923880, 866025, 793353, 707107, 608761,
    500000, 382683, 258819, 130526, 0>>
\* exp(-(t - center)^2 / (2 sigma^2)), sigma = duration / 6
GaussianCurve ==
  <<11109, 26121, 56135, 110251, 197899, 324652, 486752, 666977, 835270,
    955997, 1000000, 955997, 835270, 666977, 486752, 324652, 197899,
    110251, 56135, 26121, 11109>>
\* 0.5 (1 - cos(2 pi t))
HanningCurve ==
  <<0, 38060, 146447, 308658, 500000, 691342, 853553, 961940, 1000000,
    961940, 853553, 691342, 500000, 308658, 146447, 38060, 0>>

Min(a, b) == IF a <= b THEN a ELSE b
Max(a, b) == IF a >= b THEN a ELSE b

\* Math.min(duration * 0.3, params.attackTime / 1000)
AttackTimeUnclamped(duration, attackMs) == attackMs * TicksPerMs

AttackTime(duration, attackMs) ==
  Min((duration * 3) \div 10, attackMs * TicksPerMs)

ReleaseTimeUnclamped(duration, decayMs) == decayMs * TicksPerMs

\* Math.min(duration * 0.7, params.decayTime / 1000)
ReleaseTime(duration, decayMs) ==
  Min((duration * 7) \div 10, decayMs * TicksPerMs)

\* Math.max(0, duration - attackTime - releaseTime)
SustainTimeNoRelease(duration, attack, release) == Max(0, duration - attack)

SustainTime(duration, attack, release) ==
  Max(0, duration - attack - release)

\* BASE_GAIN * (params.volume || 0.7), volume in hundredths
PeakGain(volume) ==
  (BASE_GAIN * (IF volume = 0 THEN 70 ELSE volume)) \div 100

\* One call on gainNode.gain: setValueAtTime ("set"),
\* linearRampToValueAtTime ("linear"), exponentialRampToValueAtTime ("exp").
Point(kind, value, time) == [kind |-> kind, value |-> value, time |-> time]
\* peak * factor / 10^6 rounded down, split so that no product leaves 32 bits
Scale(peak, factor) ==
  ((peak \div 1000) * factor + ((peak % 1000) * factor) \div 1000) \div 1000

\* for (i = 0; i <= steps; i++) linearRampToValueAtTime(peak * curve(i / steps),
\*                                                      from + span * i / steps)
RampLoop(curve, steps, peak, from, span) ==
  [k \in 1..(steps + 1) |->
     Point("linear", Scale(peak, curve[k]), from + (span * (k - 1)) \div steps)]

Sustain(peak, startTime, attack, sustain) ==
  IF sustain > 0 THEN <<Point("set", peak, startTime + attack + sustain)>>
  ELSE <<>>

LinearEnvelope(startTime, attack, sustain, duration, peak) ==
  <<Point("linear", peak, startTime + attack)>>
  \o Sustain(peak, startTime, attack, sustain)
  \o <<Point("linear", 0, startTime + duration)>>

ExponentialEnvelope(startTime, attack, sustain, duration, peak) ==
  <<Point("exp", peak, startTime + attack)>>
  \o Sustain(peak, startTime, attack, sustain)
  \o <<Point("exp", ExpFloor, startTime + duration)>>

\* The three shapes built from an attack loop, a sustain point and a release
\* loop that starts at startTime + attack + sustain and spans the rest.
SegmentedEnvelope(rise, fall, steps, startTime, attack, sustain, duration, peak) ==
  RampLoop(rise, steps, peak, startTime, attack)
  \o Sustain(peak, startTime, attack, sustain)
  \o RampLoop(fall, steps, peak, startTime + attack + sustain,
              duration - attack - sustain)

ApplyOptimizedEnvelope(startTime, duration, attackMs, decayMs, volume, shape) ==
  LET attack  == AttackTime(duration, attackMs)
      release == ReleaseTime(duration, decayMs)
      sustain == SustainTime(duration, attack, release)
      peak    == PeakGain(volume)
  IN
  <<Point("set", 0, startTime)>> \o
  CASE shape = 1 ->
         ExponentialEnvelope(startTime, attack, sustain, duration, peak)
    [] shape = 2 ->
         SegmentedEnvelope(LogRise, LogFall, LOGARITHMIC_STEPS, startTime,
                           attack, sustain, duration, peak)
    [] shape = 3 ->
         SegmentedEnvelope(SigmoidRise, SigmoidFall, SIGMOID_STEPS, startTime,
                           attack, sustain, duration, peak)
    [] shape = 4 ->
         SegmentedEnvelope(CosineRise, CosineFall, COSINE_STEPS, startTime,
                           attack, sustain, duration, peak)
    [] shape = 5 ->
         RampLoop(GaussianCurve, GAUSSIAN_STEPS, peak, startTime, duration)
    [] shape = 6 ->
         RampLoop(HanningCurve, HANNING_STEPS, peak, startTime, duration)
    [] OTHER ->  \* 0 (linear), 7 (triangular) and the default branch
         LinearEnvelope(startTime, attack, sustain, duration, peak)

\* Arguments: shape ids of the knob (0..7) and one outside it, grain sizes,
\* attack and decay in ms, volume in hundredths.
EnvShapes == 0..8
EnvStartTimes == {0, 1000}
EnvDurations == {10, 350, 1000}
EnvAttacks == {0, 3, 100, 500}
EnvDecays == {0, 5, 200, 1000}
EnvVolumes == {0, 1, 70, 100, 250}

\* One call of applyOptimizedEnvelope on a fresh gain node.
ApplyEnvelope ==
  /\ envIn = NoEnvelope
  /\ \E shape \in EnvShapes, st \in EnvStartTimes, d \in EnvDurations,
        a \in EnvAttacks, r \in EnvDecays, v \in EnvVolumes :
       /\ envIn' = [shape |-> shape, startTime |-> st * TicksPerMs,
                    duration |-> d * TicksPerMs, attackTime |-> a,
                    decayTime |-> r, volume |-> v]
       /\ envPoints' = ApplyOptimizedEnvelope(st * TicksPerMs, d * TicksPerMs,
                                              a, r, v, shape)
  /\ UNCHANGED <<maxVoices, activeVoices, cleanupQueue, lastCleanup, nodePool,
                 nodes, allocated, grains, teardowns, now, calls, clockSteps,
                 lastOp, evictLog, destroyed, trigIn, trigOut, app, utilVars>>

NextEnvelope == ApplyEnvelope

SpecEnvelope == Init /\ [][NextEnvelope]_vars

\* ----------------------------------------------------------- grain trigger
\* _sequencerTick and _triggerGrainForSlot.  Positions and durations are in
\* microseconds, the audio clock and grain start times in tenths of a
\* microsecond, playbackRate in 10^-7, panControl in 10^-5.  Math.random()
\* returns thousandths (0..999), taken in call order from a cyclic stream.
\* _triggerGrainForSlot reads nothing from the voice manager and ignores
\* createGrain's return value, so a tick is modelled up to the requests it
\* hands to createGrain; what createGrain does with one is CreateGrainStep.
MAX_GRAINS_PER_TRIGGER == 20
MIN_PLAYBACK_RATE == 1000000
MAX_PLAYBACK_RATE == 20000000
MAX_PAN == 100000

Draw(random, k) == random[(k % Len(random)) + 1]

_isSlotActiveForPlayback(a, slot) ==
  IF \E s \in Slots : a.slotSoloStatus[s]
  THEN a.slotSoloStatus[slot]
  ELSE ~a.slotMuteStatus[slot]

getStep(a, slot, step) ==
  IF slot < 0 \/ slot >= SLOTS \/ step < 0 \/ step >= SEQUENCER_STEPS
  THEN FALSE
  ELSE (a.patterns[slot] \div 2^step) % 2 = 1

\* params: the knob values of one slot
Params(a, slot) == [a.knobs EXCEPT !.grainsPerStep = a.grainsPerStep[slot]]

\* null is -1
_pickRandomLoadedSlot(a, r) ==
  LET available == SelectSeq(<<0, 1, 2, 3>>,
                     LAMBDA i : a.audioBuffers[i] # 0
                                /\ _isSlotActiveForPlayback(a, i))
  IN IF Len(available) = 0 THEN -1
     ELSE available[((r * Len(available)) \div 1000) + 1]

\* lfoRate * lfoTime is taken at multiples of a quarter cycle (phase counts
\* them), where the sine is exact.  The result is in thousandths.
_getLFOValue(waveformType, phase, r) ==
  CASE waveformType = 0 ->
         (CASE phase % 4 = 0 -> 500 [] phase % 4 = 1 -> 1000
            [] phase % 4 = 2 -> 500 [] OTHER -> 0)
    [] waveformType = 1 ->
         LET x == 250 * (phase % 8) - 1000
         IN 1000 - (IF x < 0 THEN -x ELSE x)
    [] waveformType = 2 -> IF phase % 4 < 2 THEN 0 ELSE 1000
    [] waveformType = 3 -> r
    [] OTHER -> 500

MaxGrainsUncapped(k) == k.grainsPerStep

MaxGrains(k) == Min(k.grainsPerStep, MAX_GRAINS_PER_TRIGGER)

\* (Math.random() - 0.5) * 0.05 seconds
FixedJitterWide(r) == (r - 500) * 500

FixedJitter(r) == (r - 500) * 50

\* Math.random() calls of one loop iteration
DrawsPerGrain(k) ==
  (IF k.lfoWaveform = 3 THEN 1 ELSE 0) + 1 + (IF k.spread > 0 THEN 4 ELSE 0)

\* One iteration of the loop: the arguments of its createGrain call, with
\* the baseStartPosition it computed on the way.
GrainRequest(slot, k, bufDur, clock, phase, random, d0) ==
  LET lfoVal   == _getLFOValue(k.lfoWaveform, phase, Draw(random, d0))
      d1       == d0 + (IF k.lfoWaveform = 3 THEN 1 ELSE 0)
      grainDur == k.grainSize * 1000
      offset   == (k.startOffset * bufDur) \div 100
      base     == offset + lfoVal * ((bufDur - offset - grainDur) \div 1000)
      spread   == k.spread
      pos      == IF spread > 0
                  THEN base + (Draw(random, d1) - 500) * spread
                              * (bufDur \div 100000)
                  ELSE base
      d2       == d1 + (IF spread > 0 THEN 1 ELSE 0)
      position == Max(0, Min(bufDur - grainDur,
                             pos + FixedJitter(Draw(random, d2))))
      rate     == IF spread > 0
                  THEN Max(MIN_PLAYBACK_RATE, Min(MAX_PLAYBACK_RATE,
                         k.playbackRate * 100000
                         + k.playbackRate * (Draw(random, d2 + 1) - 500)
                           * spread))
                  ELSE k.playbackRate * 100000
      pan      == IF spread > 0
                  THEN Max(-MAX_PAN, Min(MAX_PAN,
                         k.panControl * 1000
                         + 4 * (Draw(random, d2 + 2) - 500) * spread))
                  ELSE k.panControl * 1000
      start    == IF spread > 0
                  THEN clock + 4 * (Draw(random, d2 + 3) - 500) * spread
                  ELSE clock
  IN [slot |-> slot, position |-> position, playbackRate |-> rate,
      panControl |-> pan, startTime |-> start, duration |-> grainDur,
      base |-> base, now |-> clock]

_triggerGrainForSlot(a, slot, clock, phase, random, d0) ==
  IF a.audioBuffers[slot] = 0 THEN <<>>
  ELSE LET params == Params(a, slot)
       IN [i \in 1..MaxGrains(params) |->
             GrainRequest(slot, params, a.audioBuffers[slot], clock, phase,
                          random, d0 + (i - 1) * DrawsPerGrain(params))]

\* targetSlots.forEach: the requests of the slots from index i on, d0 random
\* draws having been made before.
RECURSIVE ForEachTarget(_, _, _, _, _, _, _, _)
ForEachTarget(a, targetSlots, i, step, clock, phase, random, d0) ==
  IF i > Len(targetSlots) THEN <<>>
  ELSE LET s    == targetSlots[i]
           fire == /\ s \in Slots
                   /\ a.audioBuffers[s] # 0
                   /\ getStep(a, s, step)
                   /\ _isSlotActiveForPlayback(a, s)
           reqs == IF fire
                   THEN _triggerGrainForSlot(a, s, clock, phase, random, d0)
                   ELSE <<>>
           d1   == d0 + (IF fire
                         THEN MaxGrains(Params(a, s))
                              * DrawsPerGrain(Params(a, s))
                         ELSE 0)
       IN reqs \o ForEachTarget(a, targetSlots, i + 1, step, clock, phase,
                                random, d1)

TargetSlots(a, slotMode, random) ==
  IF slotMode = 4 THEN <<0, 1, 2, 3>>
  ELSE IF slotMode = 5
       THEN LET randomSlot == _pickRandomLoadedSlot(a, Draw(random, 0))
            IN IF randomSlot # -1 THEN <<randomSlot>> ELSE <<>>
       ELSE <<slotMode>>

\* What the user has set up before the sequencer runs: buffers (2 s, and a
\* 0.2 s one shorter than the default grain), solo and mute switches.  The
\* click handler keeps at most one slot soloed and no slot both soloed and
\* muted.
Sessions ==
  { [loaded |-> {0, 1, 2, 3}, short |-> {}, solo |-> {}, mute |-> {}],
    [loaded |-> {0, 2, 3}, short |-> {2}, solo |-> {}, mute |-> {0}],
    [loaded |-> {0, 1, 2, 3}, short |-> {}, solo |-> {1}, mute |-> {2}],
    [loaded |-> {0, 1}, short |-> {}, solo |-> {3}, mute |-> {}] }
LongBuffer == 2000000
ShortBuffer == 200000
KnobGrains == {2, 20}
KnobSpreads == {0, 50}
KnobWaveforms == 0..3

\* Step patterns: slot 0 on even steps, slot 1 on every step, slot 2 on
\* every fourth, slot 3 on the first and the last.
SessionPattern(s, t) ==
  CASE s = 0 -> t % 2 = 0
    [] s = 1 -> TRUE
    [] s = 2 -> t % 4 = 3
    [] OTHER -> t \in {0, SEQUENCER_STEPS - 1}

\* File loads, solo / mute clicks, pattern edits and knob moves, taken
\* together, before the first tick.  Slots 0 and 1 get the chosen
\* grainsPerStep, slot 2 the knob's minimum and slot 3 its maximum.
Setup ==
  /\ ~app.configured
  /\ trigIn = NoTick
  /\ \E c \in Sessions, g \in KnobGrains, sp \in KnobSpreads,
        wf \in KnobWaveforms :
       app' =
         [audioBuffers |->
            [s \in Slots |-> IF s \notin c.loaded THEN 0
                             ELSE IF s \in c.short THEN ShortBuffer
                             ELSE LongBuffer],
          slotSoloStatus |-> [s \in Slots |-> s \in c.solo],
          slotMuteStatus |-> [s \in Slots |-> s \in c.mute],
          patterns |-> [s \in Slots |->
                         StepMask({t \in 0..(SEQUENCER_STEPS - 1) :
                                     SessionPattern(s, t)})],
          knobs |-> [startOffset |-> 50, playbackRate |-> 180,
                     grainSize |-> 350, grainsPerStep |-> g,
                     lfoWaveform |-> wf, spread |-> sp, panControl |-> 50],
          grainsPerStep |-> [s \in Slots |-> CASE s = 2 -> 1 [] s = 3 -> 50
                                               [] OTHER -> g],
          currentSequencerStep |-> 0,
          configured |-> TRUE]
  /\ UNCHANGED <<maxVoices, activeVoices, cleanupQueue, lastCleanup, nodePool,
                 nodes, allocated, grains, teardowns, now, calls, clockSteps,
                 lastOp, evictLog, destroyed, envIn, envPoints, trigIn,
                 trigOut, utilVars>>

SlotModes == 0..5
RandomStreams == {<<0, 999, 500>>, <<999, 250, 0, 750>>}
LfoPhases == {3}

SequencerTick ==
  /\ \E slotMode \in SlotModes, random \in RandomStreams,
        phase \in LfoPhases :
       LET clock       == now * 1000000
           step        == app.currentSequencerStep
           targetSlots == TargetSlots(app, slotMode, random)
           d0          == IF slotMode = 5 THEN 1 ELSE 0
       IN /\ trigIn' = [slotMode |-> slotMode, random |-> random,
                        lfoPhase |-> phase, step |-> step,
                        targetSlots |-> targetSlots, now |-> clock]
          /\ trigOut' = ForEachTarget(app, targetSlots, 1, step, clock,
                                      phase, random, d0)
  /\ app' = [app EXCEPT !.currentSequencerStep =
                          (app.currentSequencerStep + 1) % SEQUENCER_STEPS]
  /\ UNCHANGED <<maxVoices, activeVoices, cleanupQueue, lastCleanup, nodePool,
                 nodes, allocated, grains, teardowns, now, calls, clockSteps,
                 lastOp, evictLog, destroyed, envIn, envPoints, utilVars>>

NextTrigger == Setup \/ SequencerTick

SpecTrigger == Init /\ [][NextTrigger]_vars

\* ------------------------------------------------------------------ claims
GrainIds == 1..Len(grains)
ActiveGrains == {g \in GrainIds : grains[g].isActive}
Holders(t) == {g \in ActiveGrains : grains[g].nodes = t}
\* The grains that were active at the capacity check of the last createGrain
\* and are torn down now: the voices that call evicted.
EvictedByLast == {g \in Range(lastOp.atCheck) : ~grains[g].isActive}
MinEndTime(gs) == CHOOSE m \in {grains[g].endTime : g \in gs} :
                    \A g \in gs : m <= grains[g].endTime

\* C1: after every call the number of active voices is at most maxVoices.
TheoremC1 == GetActiveVoiceCount <= maxVoices

WitnessC1 ==
  /\ lastOp.op = "createGrain"
  /\ Len(lastOp.atCheck) = maxVoices
  /\ lastOp.result # 0
  /\ GetActiveVoiceCount = maxVoices

\* C2: a createGrain call that finds the manager at capacity evicts exactly
\* one grain, and its endTime is the minimum over the grains active at that
\* moment; with maxVoices = 2, A ending at 1.0 s, B ending at 0.5 s and then
\* C, the active set is {A, C}.
ScenarioC2 ==
  /\ maxVoices = 2
  /\ Len(grains) = 3
  /\ grains[1].endTime = 10
  /\ grains[2].endTime = 5
  /\ lastOp.op = "createGrain"
  /\ lastOp.atCheck = <<1, 2>>
  /\ lastOp.result = 3

TheoremC2 ==
  /\ (lastOp.op = "createGrain" /\ Len(lastOp.atCheck) >= maxVoices) =>
       /\ Cardinality(EvictedByLast) = 1
       /\ \A e \in EvictedByLast :
            grains[e].endTime = MinEndTime(Range(lastOp.atCheck))
  /\ ScenarioC2 => Range(activeVoices) = {1, 3}

WitnessC2 == ScenarioC2 /\ EvictedByLast = {2}

\* C3: a grain that is inactive stays inactive, the body of cleanupGrain runs
\* at most once per grain, and a cleanupGrain on an inactive grain changes
\* neither the active set nor the pool nor any node or grain.
TheoremC3 ==
  /\ [](\A g \in GrainIds :
          /\ teardowns[g] <= 1
          /\ grains[g].isActive <=> teardowns[g] = 0)
  /\ [][\A g \in GrainIds :
          ~grains[g].isActive =>
            /\ ~grains'[g].isActive
            /\ teardowns'[g] = teardowns[g]
            /\ (lastOp'.op = "onended" /\ lastOp'.grain = g) =>
                 UNCHANGED <<activeVoices, nodePool, nodes, grains,
                             cleanupQueue>>]_vars

WitnessC3 ==
  /\ lastOp.op = "onended"
  /\ lastOp.grain \notin Range(lastOp.before)
  /\ teardowns[lastOp.grain] = 1
  /\ grains[lastOp.grain].nodes \in Range(nodePool)

\* C4: no triple is in the pool and held by an active grain, none is held by
\* two active grains, none is in the pool twice.
TheoremC4 ==
  \A t \in 1..MaxTriples :
    /\ Occurrences(nodePool, t) <= 1
    /\ Cardinality(Holders(t)) <= 1
    /\ ~(t \in Range(nodePool) /\ Holders(t) # {})

WitnessC4 ==
  /\ nodePool # <<>>
  /\ \E g \in ActiveGrains : \E h \in GrainIds \ ActiveGrains :
       grains[g].nodes = grains[h].nodes

\* C5: every acquired triple is in the pool or held by exactly one active
\* grain, also after a createGrain whose construction failed.
CounterC5 ==
  \A t \in 1..allocated :
    \/ Occurrences(nodePool, t) = 1 /\ Holders(t) = {}
    \/ Occurrences(nodePool, t) = 0 /\ Cardinality(Holders(t)) = 1

\* C6: every triple in the pool has gain 1, the default filter frequency,
\* pan 0 and no scheduled automation.
TheoremC6 ==
  \A i \in 1..Len(nodePool) :
    /\ nodes[nodePool[i]].gain = 1
    /\ nodes[nodePool[i]].frequency = DEFAULT_FILTER_FREQUENCY
    /\ nodes[nodePool[i]].pan = 0
    /\ ~nodes[nodePool[i]].scheduled

WitnessC6 ==
  \E g \in GrainIds \ ActiveGrains : grains[g].nodes \in Range(nodePool)

\* C7: after stopAll no voice is active, every grain that was active is
\* inactive with its triple in the pool, and the cleanup queue is empty.
TheoremC7 ==
  lastOp.op = "stopAll" =>
    /\ GetActiveVoiceCount = 0
    /\ cleanupQueue = <<>>
    /\ \A g \in Range(lastOp.before) :
         ~grains[g].isActive /\ grains[g].nodes \in Range(nodePool)

WitnessC7 ==
  /\ lastOp.op = "stopAll"
  /\ Len(lastOp.before) >= 2
  /\ lastOp.queueLen >= 2

\* C8: when a step of createGrain fails, the call returns null, registers no
\* grain and queues no cleanup entry.
CounterC8 ==
  (lastOp.op = "createGrain" /\ lastOp.fault # "none") =>
    /\ lastOp.result = 0
    /\ Range(activeVoices) \subseteq Range(lastOp.before)
    /\ Len(cleanupQueue) <= lastOp.queueLen

\* C9: a createGrain that returns null leaves every grain active that was
\* active before the call, apart from those whose due entry a 60th call
\* drained.
CounterC9 ==
  (lastOp.op = "createGrain" /\ lastOp.result = 0) =>
    \A g \in Range(lastOp.before) \ lastOp.due : grains[g].isActive

\* C10: when applying the envelope throws, createGrain yields no grain, no
\* source is started and no voice is registered.
CounterC10 ==
  (lastOp.op = "createGrain" /\ lastOp.fault \in EnvelopeFaults) =>
    /\ lastOp.result = 0
    /\ Range(activeVoices) \subseteq Range(lastOp.before)
    /\ \A g \in GrainIds :
         grains[g].source = "playing" => g \in Range(lastOp.before)

\* C11: the cleanup queue holds entries only for active grains.
CounterC11 ==
  \A i \in 1..Len(cleanupQueue) : grains[cleanupQueue[i].grain].isActive

\* C12 as stated: every force-evicted grain ends no earlier than every grain
\* force-evicted before it.
CounterC12 ==
  \A i, j \in 1..Len(evictLog) :
    i < j => \A x \in evictLog[i].evicted, y \in evictLog[j].evicted :
               grains[x].endTime <= grains[y].endTime

\* C12 amended: a force-evicted grain ends no earlier than every grain that
\* was force-evicted before it while it was itself an active voice.
TheoremC12 ==
  \A i, j \in 1..Len(evictLog) :
    i < j => \A x \in evictLog[i].evicted, y \in evictLog[j].evicted :
               y \in evictLog[i].kept =>
                 grains[x].endTime <= grains[y].endTime

WitnessC12 ==
  \E i, j \in 1..Len(evictLog) :
    /\ i < j
    /\ \E x \in evictLog[i].evicted, y \in evictLog[j].evicted :
         y \in evictLog[i].kept /\ grains[x].endTime < grains[y].endTime

\* C13: while no platform step fails and destroy() is not called, pool size
\* plus active voices is maxVoices: no fresh triple is ever created, the pool
\* holds at most maxVoices triples and is empty at full polyphony.
TheoremC13 ==
  /\ Len(nodePool) + GetActiveVoiceCount = maxVoices
  /\ allocated = maxVoices
  /\ Len(nodePool) <= maxVoices
  /\ GetActiveVoiceCount = maxVoices => nodePool = <<>>

WitnessC13 ==
  /\ GetActiveVoiceCount = maxVoices
  /\ nodePool = <<>>
  /\ lastOp.op = "createGrain" /\ EvictedByLast # {}
  /\ maxVoices > 1

\* C14: once destroy() has run, the active set, the cleanup queue and the
\* node pool are empty and every grain is inactive, and they stay so when a
\* natural-end callback of an earlier grain fires.
TheoremC14 ==
  destroyed =>
    /\ activeVoices = <<>>
    /\ cleanupQueue = <<>>
    /\ nodePool = <<>>
    /\ \A g \in GrainIds : ~grains[g].isActive

WitnessC14 ==
  /\ destroyed
  /\ lastOp.op = "onended"
  /\ Len(grains) >= 2
  /\ lastOp.queueLen = 0

\* ------------------------------------------------------- envelope claims
Enveloped == envIn.shape # -1
EnvEnd == envIn.startTime + envIn.duration
FirstPoint == envPoints[1]
LastPoint == envPoints[Len(envPoints)]
HasPoint(ms, gain) ==
  \E k \in 1..Len(envPoints) :
    envPoints[k].time = ms * TicksPerMs /\ envPoints[k].value = gain
MaxValue == CHOOSE m \in {envPoints[k].value : k \in 1..Len(envPoints)} :
              \A k \in 1..Len(envPoints) : envPoints[k].value <= m

\* Linear shape, duration 1.0 s, attack 0.1 s, decay 0.2 s, peak gain 0.5
\* (volume 2.5), start 0.
ScenarioC15 ==
  envIn = [shape |-> 0, startTime |-> 0, duration |-> 1000 * TicksPerMs,
           attackTime |-> 100, decayTime |-> 200, volume |-> 250]

\* C15 as stated: the control points include (0, 0), (0.1, 0.5), (0.7, 0.5)
\* and (1.0, 0).
CounterC15 ==
  ScenarioC15 =>
    /\ HasPoint(0, 0)
    /\ HasPoint(100, 500000)
    /\ HasPoint(700, 500000)
    /\ HasPoint(1000, 0)

\* C15 amended: the control points are (0, 0), (0.1, 0.5), (0.8, 0.5) and
\* (1.0, 0): the sustain point is scheduled at the end of the 0.7 s
\* plateau, and no point is scheduled at 0.7 s.
TheoremC15 ==
  ScenarioC15 =>
    /\ Len(envPoints) = 4
    /\ envPoints[1] = Point("set", 0, 0)
    /\ envPoints[2] = Point("linear", 500000, 100 * TicksPerMs)
    /\ envPoints[3] = Point("set", 500000, 800 * TicksPerMs)
    /\ envPoints[4] = Point("linear", 0, 1000 * TicksPerMs)
    /\ ~HasPoint(700, 500000)

WitnessC15 == ScenarioC15 /\ HasPoint(800, 500000)

TheoremC17 ==
  Enveloped =>
    /\ FirstPoint.time = envIn.startTime
    /\ \A k \in 1..(Len(envPoints) - 1) :
         envPoints[k].time <= envPoints[k + 1].time
    /\ \A k \in 1..Len(envPoints) : envPoints[k].time <= EnvEnd

WitnessC17 ==
  /\ Enveloped
  /\ envIn.shape = 3
  /\ envIn.attackTime = 500
  /\ envIn.duration = 10 * TicksPerMs
  /\ Len(envPoints) = 2 * SIGMOID_STEPS + 3

\* C18: for every volume in [0, 1] the peak gain the envelope ramps to is
\* baseGain * volume; volume 0 gives peak gain 0.
CounterC18 ==
  (Enveloped /\ envIn.shape \in {0, 1, 7} /\ envIn.volume <= 100) =>
    MaxValue = (BASE_GAIN * envIn.volume) \div 100

\* -------------------------------------------------------- trigger claims
Ticked == trigIn.slotMode # -1
Requests == 1..Len(trigOut)
Submitted(s) == Cardinality({i \in Requests : trigOut[i].slot = s})
IsTarget(s) == \E i \in 1..Len(trigIn.targetSlots) : trigIn.targetSlots[i] = s
AnySolo == \E s \in Slots : app.slotSoloStatus[s]
\* loaded buffer, current step enabled, active for playback
Eligible(s) ==
  /\ app.audioBuffers[s] # 0
  /\ (app.patterns[s] \div 2^trigIn.step) % 2 = 1
  /\ IF AnySolo THEN app.slotSoloStatus[s] ELSE ~app.slotMuteStatus[s]
Capped(g) == IF g <= 20 THEN g ELSE 20

\* C19: on a tick a target slot submits exactly min(grainsPerStep, 20)
\* createGrain requests when it has a loaded buffer, the current step is
\* enabled in its pattern and it is active for playback (soloed when any slot
\* is soloed, otherwise not muted); otherwise it submits none.  The targets
\* are the selected slot (modes 0..3), every slot (mode 4) or at most one
\* loaded, active slot (mode 5).
TheoremC19 ==
  Ticked =>
    /\ \A s \in Slots :
         Submitted(s) = IF IsTarget(s) /\ Eligible(s)
                        THEN Capped(app.grainsPerStep[s])
                        ELSE 0
    /\ trigIn.slotMode \in 0..3 => trigIn.targetSlots = <<trigIn.slotMode>>
    /\ trigIn.slotMode = 4 => \A s \in Slots : IsTarget(s)
    /\ trigIn.slotMode = 5 =>
         /\ Len(trigIn.targetSlots) <= 1
         /\ \A s \in Slots : IsTarget(s) => app.audioBuffers[s] # 0

WitnessC19 ==
  /\ Ticked
  /\ trigIn.slotMode = 4
  /\ app.grainsPerStep[3] = 50 /\ Submitted(3) = 20
  /\ app.slotMuteStatus[0] /\ app.audioBuffers[0] # 0
  /\ Eligible(3) /\ ~Eligible(0) /\ Submitted(0) = 0

Abs(x) == IF x < 0 THEN -x ELSE x
Clamped(lo, hi, x) == IF x > hi THEN (IF hi < lo THEN lo ELSE hi)
                      ELSE IF x < lo THEN lo ELSE x
SpreadZero(i) == app.knobs.spread = 0

\* C20 as stated: with spread = 0 the position, playbackRate and panControl
\* submitted to createGrain are exactly the base values, whatever the random
\* source returns.
CounterC20 ==
  Ticked =>
    \A i \in Requests :
      SpreadZero(i) =>
        /\ trigOut[i].position = trigOut[i].base
        /\ trigOut[i].playbackRate
             = app.knobs.playbackRate * 100000
        /\ trigOut[i].panControl
             = app.knobs.panControl * 1000

\* C20 amended: with spread = 0 the playbackRate and panControl submitted are
\* exactly the knob values and the start time is exactly the clock value
\* read; the position is the base position moved by the spread-independent
\* jitter of at most 25 ms and clamped to [0, bufferDuration - grainDuration],
\* so it lies within 25 ms of the clamped base position.  The base position
\* is startOffset / 100 * bufferDuration advanced by the LFO term.
TheoremC20 ==
  Ticked =>
    \A i \in Requests :
      LET q      == trigOut[i]
          k      == app.knobs
          bufDur == app.audioBuffers[q.slot]
          offset == (k.startOffset * bufDur) \div 100
          last   == bufDur - q.duration
      IN SpreadZero(i) =>
           /\ q.playbackRate = k.playbackRate * 100000
           /\ q.panControl = k.panControl * 1000
           /\ q.startTime = q.now
           /\ Abs(q.position - Clamped(0, last, q.base)) <= 25000
           /\ q.position = Clamped(0, last, q.position)
           /\ k.lfoWaveform # 3 =>
                q.base = offset
                         + (_getLFOValue(k.lfoWaveform, trigIn.lfoPhase, 0)
                            * (last - offset)) \div 1000

WitnessC20 ==
  /\ Ticked
  /\ \E i \in Requests :
       /\ SpreadZero(i)
       /\ trigOut[i].position # trigOut[i].base
       /\ Abs(trigOut[i].position - trigOut[i].base) = 25000
       /\ trigOut[i].playbackRate = 18000000
  /\ \E i \in Requests :
       SpreadZero(i) /\ trigOut[i].position = trigOut[i].base

\* ---------------------------------------------------------- drain claims
DueEntries(q, t) == {i \in 1..Len(q) : q[i].time <= t}

CounterC23 ==
  [][(calls' = calls + 1 /\ Len(activeVoices) >= maxVoices) =>
       DueEntries(cleanupQueue', now) = {}
    ]_vars

\* C24: the periodic drain runs on every 60th createGrain call and on no
\* other: a 60th call leaves no due entry in the queue and its capacity check
\* sees the voices without those the drain freed; any other call removes no
\* queue entry and checks capacity on the voices as it found them.
TheoremC24 ==
  [][calls' = calls + 1 =>
       LET added == IF lastOp'.result # 0 THEN 1 ELSE 0
           due   == DueEntries(cleanupQueue, now)
           gone  == {cleanupQueue[i].grain : i \in due}
       IN IF (lastCleanup + 1) % 60 = 0
          THEN /\ DueEntries(cleanupQueue', now) = {}
               /\ lastOp'.atCheck
                    = SelectSeq(activeVoices, LAMBDA g : g \notin gone)
               /\ Len(cleanupQueue') + Cardinality(due)
                    = Len(cleanupQueue) + added
          ELSE /\ lastOp'.atCheck = activeVoices
               /\ Len(cleanupQueue') = Len(cleanupQueue) + added
               /\ SubSeq(cleanupQueue', 1, Len(cleanupQueue)) = cleanupQueue
    ]_vars

\* A 60th call at full polyphony whose drain freed the voice, so that
\* nothing was evicted.
WitnessC24 ==
  /\ lastOp.op = "createGrain"
  /\ lastCleanup = 60
  /\ Len(lastOp.before) = maxVoices
  /\ lastOp.due # {} /\ Len(lastOp.atCheck) < maxVoices
  /\ EvictedByLast = {}
  /\ lastOp.result # 0

\* C25: createGrain evicts only when the capacity check finds
\* >= maxVoices voices, and then exactly one; below maxVoices no voice is
\* torn down and a created grain is appended to the voices found.
TheoremC25 ==
  lastOp.op = "createGrain" =>
    IF Len(lastOp.atCheck) >= maxVoices
    THEN Cardinality(EvictedByLast) = 1
    ELSE /\ EvictedByLast = {}
         /\ activeVoices = IF lastOp.result # 0
                            THEN Append(lastOp.atCheck, lastOp.result)
                            ELSE lastOp.atCheck

WitnessC25 ==
  /\ lastOp.op = "createGrain"
  /\ maxVoices = 2
  /\ Len(lastOp.atCheck) = 1
  /\ lastOp.result # 0
  /\ GetActiveVoiceCount = 2
  /\ calls = 3

\* ------------------------------------------------ envelope segment claims
\* The segments as scheduled: the attack ends at the last point of the attack
\* ramp, the release starts at the sustain point (or where the attack ended)
\* and ends with the last point.
Segmented == envIn.shape \in {2, 3, 4}
StepsOf(shape) == CASE shape = 2 -> 10 [] shape = 3 -> 15 [] OTHER -> 12
AttackEnd ==
  envPoints[IF Segmented THEN StepsOf(envIn.shape) + 2 ELSE 2].time
ReleaseStart ==
  envPoints[IF Segmented THEN Len(envPoints) - StepsOf(envIn.shape)
            ELSE Len(envPoints) - 1].time
Least(a, b) == IF a < b THEN a ELSE b

\* C26: the effective attack is min(requested attack, 0.3 * duration), the
\* effective decay is min(requested decay, 0.7 * duration) and the sustain is
\* the remainder, >= 0, so the three add up to the duration (shapes 0..4 and
\* 7, which schedule the three segments).
TheoremC26 ==
  (Enveloped /\ envIn.shape \in {0, 1, 2, 3, 4, 7}) =>
    LET attack  == AttackEnd - envIn.startTime
        sustain == ReleaseStart - AttackEnd
        decay   == LastPoint.time - ReleaseStart
    IN /\ attack = Least(envIn.attackTime * 240, (envIn.duration * 3) \div 10)
       /\ decay = Least(envIn.decayTime * 240, (envIn.duration * 7) \div 10)
       /\ sustain >= 0
       /\ attack + sustain + decay = envIn.duration

WitnessC26 ==
  /\ Enveloped
  /\ envIn.shape = 2
  /\ envIn.attackTime = 500 /\ envIn.decayTime = 5
  /\ envIn.duration = 350 * TicksPerMs
  /\ AttackEnd - envIn.startTime = 105 * TicksPerMs
  /\ ReleaseStart - AttackEnd = 240 * TicksPerMs

\* C27 as stated: every createGrain request of a tick has startTime >= the
\* clock value read for it.
CounterC27 ==
  Ticked => \A i \in Requests : trigOut[i].startTime >= trigOut[i].now

\* ------------------------------------------------- validateAudioFile
\* Strings are sequences of one-character strings, so that toLowerCase,
\* endsWith and startsWith are computed character by character.
Upper == <<"A", "B", "C", "D", "E", "F", "G", "H", "I", "J", "K", "L", "M",
           "N", "O", "P", "Q", "R", "S", "T", "U", "V", "W", "X", "Y", "Z">>
Lower == <<"a", "b", "c", "d", "e", "f", "g", "h", "i", "j", "k", "l", "m",
           "n", "o", "p", "q", "r", "s", "t", "u", "v", "w", "x", "y", "z">>
toLowerCase(str) ==
  [i \in 1..Len(str) |->
     IF \E k \in 1..Len(Upper) : Upper[k] = str[i]
     THEN Lower[CHOOSE k \in 1..Len(Upper) : Upper[k] = str[i]]
     ELSE str[i]]
endsWith(str, suffix) ==
  /\ Len(suffix) <= Len(str)
  /\ SubSeq(str, Len(str) - Len(suffix) + 1, Len(str)) = suffix
startsWith(str, prefix) ==
  /\ Len(prefix) <= Len(str)
  /\ SubSeq(str, 1, Len(prefix)) = prefix

MAX_FILE_SIZE == 100 * 1024 * 1024
WARN_FILE_SIZE == 50 * 1024 * 1024

audioExtensions ==
  {<<".", "w", "a", "v">>, <<".", "m", "p", "3">>, <<".", "o", "g", "g">>,
   <<".", "f", "l", "a", "c">>, <<".", "m", "4", "a">>,
   <<".", "a", "a", "c">>, <<".", "w", "e", "b", "m">>}
audioMimeTypes ==
  {<<"a", "u", "d", "i", "o", "/">>,
   <<"v", "i", "d", "e", "o", "/", "w", "e", "b", "m">>}
hasValidExtension(file) ==
  \E ext \in audioExtensions : endsWith(toLowerCase(file.name), ext)
hasValidMimeType(file) ==
  \E type \in audioMimeTypes : startsWith(toLowerCase(file.type), type)

TooLargeInclusive(size) == size >= MAX_FILE_SIZE
TooLarge(size) == size > MAX_FILE_SIZE

\* validateAudioFile(file); "null" stands for null, the other strings name
\* the message that is set.
validateAudioFile(file) ==
  LET result == [valid |-> TRUE, error |-> "null", warning |-> "null"]
  IN IF ~file.present
     THEN [result EXCEPT !.valid = FALSE, !.error = "No file provided"]
     ELSE IF TooLarge(file.size)
     THEN [result EXCEPT !.valid = FALSE, !.error = "File too large"]
     ELSE LET sized == IF file.size > WARN_FILE_SIZE
                       THEN [result EXCEPT !.warning = "Large file"]
                       ELSE result
          IN IF ~hasValidExtension(file) /\ ~hasValidMimeType(file)
             THEN [sized EXCEPT !.warning = "Unexpected file type"]
             ELSE sized

\* The files handed to validateAudioFile: null, or a File of some size,
\* name and MIME type.
NoFile == [present |-> FALSE, size |-> 0, name |-> <<>>, type |-> <<>>]
FileSizes == {0, 1024 * 1024, WARN_FILE_SIZE, WARN_FILE_SIZE + 1,
              60 * 1024 * 1024, MAX_FILE_SIZE, MAX_FILE_SIZE + 1}
FileNames ==
  {<<"a", ".", "w", "a", "v">>, <<"A", ".", "W", "A", "V">>,
   <<"a", ".", "t", "x", "t">>, <<"w", "a", "v">>,
   <<"a", ".", "f", "l", "a", "c">>, <<>>}
FileTypes ==
  {<<"a", "u", "d", "i", "o", "/", "w", "a", "v">>,
   <<"A", "u", "d", "i", "o", "/", "x">>,
   <<"v", "i", "d", "e", "o", "/", "w", "e", "b", "m">>,
   <<"v", "i", "d", "e", "o", "/", "m", "p", "4">>, <<>>}
Files ==
  {NoFile} \cup
  {[present |-> TRUE, size |-> sz, name |-> n, type |-> t] :
     sz \in FileSizes, n \in FileNames, t \in FileTypes}

\* One call of validateAudioFile.
Validate ==
  /\ ~validation.called
  /\ \E file \in Files :
       validation' = [called |-> TRUE, file |-> file,
                      result |-> validateAudioFile(file)]
  /\ UNCHANGED <<maxVoices, activeVoices, cleanupQueue, lastCleanup, nodePool,
                 nodes, allocated, grains, teardowns, now, calls, clockSteps,
                 lastOp, evictLog, destroyed, envIn, envPoints, trigIn,
                 trigOut, app, stateManager, playback>>

NextValidate == Validate

SpecValidate == Init /\ [][NextValidate]_vars

\* C21: validateAudioFile returns valid = false with a non-null error exactly
\* when no file is given or the size exceeds 100 MB; for a size above 50 MB
\* and at most 100 MB it returns valid = true with a non-null warning; for a
\* size of at most 50 MB with an audio extension or MIME type it returns
\* valid = true with error = null (and no warning).
Validated == validation.called
HundredMB == 100 * 1024 * 1024
FiftyMB == 50 * 1024 * 1024
TheoremC21 ==
  Validated =>
    LET file == validation.file
        r    == validation.result
    IN /\ (~r.valid /\ r.error # "null")
            <=> (~file.present \/ file.size > HundredMB)
       /\ ~r.valid <=> r.error # "null"
       /\ (file.present /\ file.size > FiftyMB /\ file.size <= HundredMB)
            => (r.valid /\ r.warning # "null")
       /\ (file.present /\ file.size <= FiftyMB
             /\ (hasValidExtension(file) \/ hasValidMimeType(file)))
            => (r.valid /\ r.error = "null" /\ r.warning = "null")

\* A 100 MB file named in upper case with no MIME type passes with the
\* size warning.
WitnessC21 ==
  /\ Validated
  /\ validation.file.present
  /\ validation.file.size = HundredMB
  /\ validation.file.name = <<"A", ".", "W", "A", "V">>
  /\ validation.file.type = <<>>
  /\ validation.result = [valid |-> TRUE, error |-> "null",
                          warning |-> "Large file"]

\* ------------------------------------------------------- StateManager
MaxHistoryBound == 3
MaxSaves == 4

\* A plain state clones to an equal value.  A state holding a function makes
\* structuredClone throw, and the JSON fallback drops the function.  A state
\* holding a function and a cycle makes both throw.
StateKinds == {"plain", "function", "uncloneable"}
_cloneState(state) ==
  [threw |-> state.kind = "uncloneable",
   value |-> [state EXCEPT !.kind = IF @ = "function" THEN "plain" ELSE @]]

canUndo(sm) == sm.historyIndex > 0
canRedo(sm) == sm.historyIndex < Len(sm.history) - 1

\* history.slice(0, historyIndex + 1) when states lie ahead of the index.
SliceKeepAhead(sm) == sm.history
Slice(sm) ==
  IF sm.historyIndex < Len(sm.history) - 1
  THEN SubSeq(sm.history, 1, sm.historyIndex + 1)
  ELSE sm.history

OverLimitLate(history, max) == Len(history) > max + 1
OverLimit(history, max) == Len(history) > max

Called(sm, op, arg) ==
  [sm EXCEPT !.op = op, !.arg = arg,
             !.before = [history |-> sm.history,
                         historyIndex |-> sm.historyIndex]]

saveState(sm, state) ==
  LET sliced == Slice(sm)
      cloned == _cloneState(state)
      pushed == Append(sliced, cloned.value)
      c      == [Called(sm, "saveState", state) EXCEPT !.saves = @ + 1]
  IN IF cloned.threw
     THEN [c EXCEPT !.history = sliced, !.ok = FALSE, !.returned = NullState]
     ELSE IF OverLimit(pushed, sm.maxHistoryStates)
     THEN [c EXCEPT !.history = Tail(pushed), !.ok = TRUE,
                    !.returned = NullState]
     ELSE [c EXCEPT !.history = pushed, !.historyIndex = @ + 1, !.ok = TRUE,
                    !.returned = NullState]

undo(sm) ==
  LET c == Called(sm, "undo", NullState)
  IN IF ~canUndo(sm)
     THEN [c EXCEPT !.ok = FALSE, !.returned = NullState]
     ELSE [c EXCEPT !.historyIndex = @ - 1, !.ok = TRUE,
                    !.returned = _cloneState(sm.history[sm.historyIndex]).value]

redo(sm) ==
  LET c == Called(sm, "redo", NullState)
  IN IF ~canRedo(sm)
     THEN [c EXCEPT !.ok = FALSE, !.returned = NullState]
     ELSE [c EXCEPT !.historyIndex = @ + 1, !.ok = TRUE,
                    !.returned =
                      _cloneState(sm.history[sm.historyIndex + 2]).value]

clearHistory(sm) ==
  [Called(sm, "clearHistory", NullState) EXCEPT
     !.history = <<>>, !.historyIndex = -1, !.ok = TRUE,
     !.returned = NullState]

OtherThanStateManager ==
  <<maxVoices, activeVoices, cleanupQueue, lastCleanup, nodePool, nodes,
    allocated, grains, teardowns, now, calls, clockSteps, lastOp, evictLog,
    destroyed, envIn, envPoints, trigIn, trigOut, app, validation, playback>>

\* new StateManager(maxHistoryStates)
NewStateManager ==
  /\ stateManager = NoStateManager
  /\ \E max \in 1..MaxHistoryBound :
       stateManager' =
         [maxHistoryStates |-> max, history |-> <<>>, historyIndex |-> -1,
          op |-> "constructor", arg |-> NullState, ok |-> FALSE,
          returned |-> NullState, saves |-> 0,
          before |-> [history |-> <<>>, historyIndex |-> -1]]
  /\ UNCHANGED OtherThanStateManager

Constructed == stateManager.op # "none"

SaveState ==
  /\ Constructed
  /\ stateManager.saves < MaxSaves
  /\ \E kind \in StateKinds :
       stateManager' =
         saveState(stateManager,
                   [id |-> stateManager.saves + 1, kind |-> kind])
  /\ UNCHANGED OtherThanStateManager

Undo ==
  /\ Constructed
  /\ stateManager' = undo(stateManager)
  /\ UNCHANGED OtherThanStateManager

Redo ==
  /\ Constructed
  /\ stateManager' = redo(stateManager)
  /\ UNCHANGED OtherThanStateManager

ClearHistory ==
  /\ Constructed
  /\ stateManager' = clearHistory(stateManager)
  /\ UNCHANGED OtherThanStateManager

NextHistory == NewStateManager \/ SaveState \/ Undo \/ Redo \/ ClearHistory

SpecHistory == Init /\ [][NextHistory]_vars

\* C28: after any sequence of saveState, undo, redo and clearHistory,
\* history.length <= maxHistoryStates, -1 <= historyIndex <=
\* history.length - 1, and historyIndex = -1 only when the history is empty;
\* undo and redo return null and change nothing when canUndo / canRedo is
\* false.
Refused(op) ==
  /\ stateManager.op = op
  /\ IF op = "undo" THEN ~canUndo(stateManager.before)
                    ELSE ~canRedo(stateManager.before)
TheoremC28 ==
  Constructed =>
    /\ Len(stateManager.history) <= stateManager.maxHistoryStates
    /\ stateManager.historyIndex >= -1
    /\ stateManager.historyIndex <= Len(stateManager.history) - 1
    /\ stateManager.historyIndex = -1 => stateManager.history = <<>>
    /\ \A op \in {"undo", "redo"} :
         Refused(op) =>
           /\ ~stateManager.ok
           /\ stateManager.returned = NullState
           /\ stateManager.history = stateManager.before.history
           /\ stateManager.historyIndex = stateManager.before.historyIndex

\* An undo refused at the first entry of a full history of two.
WitnessC28 ==
  /\ Refused("undo")
  /\ stateManager.maxHistoryStates = 2
  /\ Len(stateManager.history) = 2
  /\ stateManager.historyIndex = 0

\* C29: after every successful saveState the saved state (its clone) is the
\* last history entry and the current one: historyIndex = history.length - 1,
\* canRedo() is false, the states that were ahead of the index are gone, and
\* when the history was full the oldest entry is dropped.
Saved == stateManager.op = "saveState" /\ stateManager.ok
KeptBefore ==
  SubSeq(stateManager.before.history, 1, stateManager.before.historyIndex + 1)
TheoremC29 ==
  Saved =>
    /\ stateManager.history # <<>>
    /\ stateManager.history[Len(stateManager.history)]
         = _cloneState(stateManager.arg).value
    /\ stateManager.historyIndex = Len(stateManager.history) - 1
    /\ ~canRedo(stateManager)
    /\ stateManager.history =
         IF Len(KeptBefore) = stateManager.maxHistoryStates
         THEN Append(Tail(KeptBefore), _cloneState(stateManager.arg).value)
         ELSE Append(KeptBefore, _cloneState(stateManager.arg).value)

\* A save after an undo in a history of three, which discards the two states
\* ahead of the index.
WitnessC29 ==
  /\ Saved
  /\ Len(stateManager.before.history) = 3
  /\ stateManager.before.historyIndex = 0
  /\ Len(stateManager.history) = 2

\* ---------------------------------------------------- granular playback
MIN_BPM == 40
MAX_BPM == 240
GRANULAR_INTERVAL_DIVISOR == 4
MaxStarts == 3

\* (60 / tempoBpm) * 1000 / GRANULAR_INTERVAL_DIVISOR, in microseconds.
StepInterval(tempoBpm) ==
  ((60 * 1000 * 1000) \div tempoBpm) \div GRANULAR_INTERVAL_DIVISOR

\* ResourceManager.setInterval: the platform issues the next timer id, the
\* timer is live until it is cleared.
setInterval(pb, delay) ==
  [pb EXCEPT !.timers = @ \cup {[id |-> pb.issued + 1, delay |-> delay]},
             !.issued = @ + 1,
             !.sequencerIntervalId = pb.issued + 1]

\* ResourceManager.clearInterval
clearIntervalKeep(pb, id) == pb
clearInterval(pb, id) == [pb EXCEPT !.timers = {t \in @ : t.id # id}]

ClearSequencerInterval(pb) ==
  IF pb.sequencerIntervalId # 0
  THEN [clearInterval(pb, pb.sequencerIntervalId) EXCEPT
          !.sequencerIntervalId = 0]
  ELSE pb

\* startGranularPlayback; with analyzerFails, spectrumAnalyzer.start()
\* throws and the catch block resets isPlaying.
startGranularPlayback(pb, analyzerFails) ==
  LET c == [pb EXCEPT !.op = "startGranularPlayback"]
  IN IF pb.isPlaying
     THEN setInterval(ClearSequencerInterval(c), StepInterval(pb.tempoBpm))
     ELSE IF analyzerFails
     THEN [c EXCEPT !.isPlaying = FALSE]
     ELSE setInterval([c EXCEPT !.isPlaying = TRUE],
                      StepInterval(pb.tempoBpm))

Clamp(lo, hi, value) == Max(lo, Min(hi, value))
TempoValues == {20, 90, 300}

OtherThanPlayback ==
  <<evictLog, destroyed, envIn, envPoints, trigIn, trigOut, validation,
    stateManager>>
ManagerVars ==
  <<maxVoices, activeVoices, cleanupQueue, lastCleanup, nodePool, nodes,
    allocated, grains, teardowns, now, calls, clockSteps, lastOp>>

StartGranularPlayback ==
  /\ playback.issued < MaxStarts
  /\ \E analyzerFails \in BOOLEAN :
       playback' = startGranularPlayback(playback, analyzerFails)
  /\ app' = IF playback.isPlaying THEN app
            ELSE [app EXCEPT !.currentSequencerStep = 0]
  /\ UNCHANGED ManagerVars
  /\ UNCHANGED OtherThanPlayback

\* stopGranularPlayback: nothing when not playing; otherwise the timer is
\* cleared and the voice manager stops every voice.
StopGranularPlayback ==
  /\ IF ~playback.isPlaying
     THEN /\ playback' = [playback EXCEPT !.op = "stopGranularPlayback"]
          /\ UNCHANGED <<activeVoices, cleanupQueue, nodePool, nodes,
                         allocated, grains, teardowns, lastOp>>
     ELSE /\ playback' =
               [ClearSequencerInterval([playback EXCEPT !.isPlaying = FALSE])
                  EXCEPT !.op = "stopGranularPlayback"]
          /\ Install(StopAll(Mgr))
          /\ lastOp' = [NoOp EXCEPT !.op = "stopAll",
                                    !.before = activeVoices,
                                    !.queueLen = Len(cleanupQueue)]
  /\ UNCHANGED <<maxVoices, lastCleanup, now, calls, clockSteps, app>>
  /\ UNCHANGED OtherThanPlayback

\* _updateBpmKnob(value), which restarts the interval while playing.
UpdateBpmKnob ==
  /\ playback.issued < MaxStarts
  /\ \E value \in TempoValues :
       LET set == [playback EXCEPT !.tempoBpm = Clamp(MIN_BPM, MAX_BPM, value),
                                   !.op = "_updateBpmKnob"]
       IN playback' = IF playback.isPlaying
                      THEN [startGranularPlayback(set, FALSE) EXCEPT
                              !.op = "_updateBpmKnob"]
                      ELSE set
  /\ UNCHANGED app
  /\ UNCHANGED ManagerVars
  /\ UNCHANGED OtherThanPlayback

\* The callback of a live interval timer: a sequencer tick whose one target
\* slot submits one grain request, then the step advances.
TimerTick ==
  /\ playback.timers # {}
  /\ calls < MaxCalls
  /\ \E duration \in Durations, cutoff \in CutoffFreqs, pan \in PanValues,
        fault \in OutcomeFaults :
       CreateGrainBody(duration, cutoff, pan, fault)
  /\ app' = [app EXCEPT !.currentSequencerStep =
                          (app.currentSequencerStep + 1) % SEQUENCER_STEPS]
  /\ UNCHANGED playback
  /\ UNCHANGED OtherThanPlayback

NextPlayback ==
  \/ StartGranularPlayback
  \/ StopGranularPlayback
  \/ UpdateBpmKnob
  \/ TimerTick
  \/ \E g \in 1..MaxCalls : OnEnded(g)

SpecPlayback == Init /\ [][NextPlayback]_vars

\* C30: under any sequence of startGranularPlayback, stopGranularPlayback and
\* tempo changes at most one sequencer interval timer is live, a timer is
\* live exactly when isPlaying is true (and it is the timer of
\* sequencerIntervalId, set for the current tempo), and after
\* stopGranularPlayback no timer is live and the voice manager's active
\* voice count is 0.
LiveTimers == playback.timers
TheoremC30 ==
  /\ Cardinality(LiveTimers) <= 1
  /\ (LiveTimers # {}) <=> playback.isPlaying
  /\ playback.isPlaying =>
       LiveTimers = {[id |-> playback.sequencerIntervalId,
                      delay |-> StepInterval(playback.tempoBpm)]}
  /\ playback.op = "stopGranularPlayback" =>
       /\ LiveTimers = {}
       /\ GetActiveVoiceCount = 0

\* A stop that ended a playback whose timer had been replaced by a tempo
\* change and that stopped two voices.
WitnessC30 ==
  /\ playback.op = "stopGranularPlayback"
  /\ playback.issued >= 2
  /\ playback.tempoBpm = MAX_BPM
  /\ lastOp.op = "stopAll"
  /\ Len(lastOp.before) = 2

====
